---- MODULE Spec2Model ----
(***************************************************************************)
(* The refresh-token cache (ModernWMS_PY/app/cache.py) and the             *)
(* authentication handlers that use it (ModernWMS_PY/app/routers/auth.py). *)
(*                                                                         *)
(* Time is a clock of whole ticks.  In Spec and AuthSpec every cache      *)
(* method is one atomic step (its body runs under the single lock of the   *)
(* cache); ThreadSpec runs the methods statement by statement on threads.  *)
(***************************************************************************)
EXTENDS Integers, FiniteSets, Sequences, TLC

\* ------------------------------------------------------------------ bounds
MaxTime == 2          \* the clock runs from 0 to MaxTime

\* principal ids: 0 (falsy in Python) and 1
Users == {0, 1}

\* timedelta arguments given to set_token: already elapsed, or one tick ahead
TTLs == {-1, 1}

\* ------------------------------------------------------- python values
\* Python's None where an int is expected (Optional[int])
NoneId == -1

\* ------------------------------------------------------------ token codec
\* A bearer string is modelled by what jwt.decode reads from it: the claims
\* and whether signature, issuer and audience verify under JWT_SECRET.
\*   typ  "refresh": the type claim of create_refresh_token, sub "refresh:<id>"
\*        "access" : no type claim (create_access_token sets none), sub "user:<id>"
\*   scopes: the scopes claim of an access token ({} on a refresh token)
Jwt(typ, sub, exp, sig, scopes) ==
    [typ |-> typ, sub |-> sub, exp |-> exp, sig |-> sig, scopes |-> scopes]

\* the expiry claims of the tokens in play: one that elapses within the
\* horizon and one that does not
JwtExps == {1, MaxTime + 1}

\* tokens handed to set_token: validly signed refresh tokens, one for each
\* principal and a second, earlier one for principal 1
CacheTokens ==
    {Jwt("refresh", u, MaxTime + 1, TRUE, {}) : u \in Users}
        \cup {Jwt("refresh", 1, 1, TRUE, {})}

\* placeholder for "no token argument" in the record of the last call
NoToken == Jwt("", NoneId, NoneId, FALSE, {})

\* timedelta(minutes=30) and timedelta(days=30), in ticks of 30 minutes
AccessTTL == 1
RefreshTTL == 1440

\* jwt.decode: signature, issuer and audience verify and exp has not elapsed
\* (jose raises ExpiredSignatureError, a JWTError, when exp < now)
Decode(token, t) == token.sig /\ ~(token.exp < t)

\* ------------------------------------------------------- the users table
\* the attributes of models.User (BaseMixin's and its own)
UserColumns ==
    {"create_time", "last_update_time", "is_valid", "is_deleted",
     "user_id", "user_num", "user_name", "password", "user_role",
     "userrole_id", "tenant_id", "email", "phone", "avatar"}

\* models.User.<c> for an attribute the class does not have raises
\* AttributeError while the query expression is being built
QueryRaises(columns) == \E c \in columns : c \notin UserColumns

\* the attributes named by the three user queries
LoginQueryColumns == {"user_name", "user_num", "is_active", "is_deleted"}
RefreshQueryColumns == {"id", "is_active", "is_deleted"}
CurrentUserQueryColumns == {"id", "is_active", "is_deleted"}

\* rows of the users table: every principal exists, is active and not
\* deleted; principal 1 is the seeded admin
UserRole == [u \in Users |-> IF u = 1 THEN "admin" ELSE "user"]

\* md5_hex and the bcrypt context, by what they return
Md5Hex(text) == <<"md5", text>>
GetPasswordHash(pw) == <<"bcrypt", pw>>
VerifyPassword(plain, hashed) == hashed = GetPasswordHash(plain)

\* passwords typed by clients (none is 32 characters long, so each is
\* md5-hashed by the handler before it is verified)
Passwords == {"1", "2"}

\* scopes by role (login and refresh_token build the same list)
ScopesFor(role) ==
    IF role = "admin" THEN {"user", "admin", "manager"}
    ELSE IF role = "manager" THEN {"user", "manager"}
    ELSE {"user"}

\* bearer tokens presented to the handlers
AccessTokens ==
    {Jwt("access", u, e, TRUE, ScopesFor(UserRole[u])) : u \in Users, e \in JwtExps}
ForgedTokens == {Jwt("refresh", 1, MaxTime + 1, FALSE, {})}
RefreshInputs ==
    CacheTokens \cup ForgedTokens \cup {t \in AccessTokens : t.sub = 1 /\ t.exp > 1}
BearerInputs ==
    {t \in AccessTokens : t.sub = 1 \/ t.exp > 1}
        \cup {t \in CacheTokens : t.sub = 1 /\ t.exp > 1}

\* the scopes an endpoint declares with Security(get_current_user, scopes=[...])
RequiredScopes == {{"admin"}, {"manager"}, {"user"}}

\* ------------------------------------------------------------------ state
VARIABLES
    refresh_tokens,   \* TokenCache._refresh_tokens: user_id -> record
    token_lookup,     \* TokenCache._token_lookup:   token   -> index entry
    now,              \* datetime.now(timezone.utc)
    password,         \* users.password: user_id -> stored hash
    last,             \* the last call: its arguments and what it returned
    lock,             \* TokenCache._lock: the thread that holds it, or NoThread
    frame             \* per thread: the cache method it is in and its locals

vars == <<refresh_tokens, token_lookup, now, password, last, lock, frame>>

\* threads that call the cache; the value of `lock` when no thread holds it
Threads == {1, 2}
NoThread == 0

\* a thread that is in no cache method
IdleFrame == [pc |-> "idle", user |-> NoneId, token |-> NoToken, at |-> 0]

\* dict helpers
DictDel(d, k) == [x \in (DOMAIN d) \ {k} |-> d[x]]
DictSet(d, k, v) == [x \in (DOMAIN d) \cup {k} |-> IF x = k THEN v ELSE d[x]]
EmptyDict == [x \in {} |-> 0]

\* the record of a call; fields a call does not use keep these defaults
Call(op) == [op |-> op, user |-> NoneId, token |-> NoToken, ttl |-> 0,
             exc |-> "", uid |-> NoneId, ok |-> FALSE, count |-> 0,
             pwd |-> "", verified |-> FALSE, code |-> 0, msg |-> "",
             access |-> NoToken, refresh |-> NoToken, scopes |-> {}]

\* ------------------------------------------------------- TokenCache helpers
\* _invalidate_user_tokens: `del self._token_lookup[token]` raises KeyError
\* when the record's token has no index entry; nothing has been deleted then.
InvalidateUserTokens(rt, tl, user_id) ==
    IF user_id \notin DOMAIN rt
    THEN [rt |-> rt, tl |-> tl, ok |-> FALSE, exc |-> ""]
    ELSE LET token == rt[user_id].refresh_token IN
         IF token \notin DOMAIN tl
         THEN [rt |-> rt, tl |-> tl, ok |-> FALSE, exc |-> "KeyError"]
         ELSE [rt |-> DictDel(rt, user_id), tl |-> DictDel(tl, token),
               ok |-> TRUE, exc |-> ""]

\* _invalidate_token
InvalidateToken(rt, tl, token) ==
    IF token \notin DOMAIN tl
    THEN [rt |-> rt, tl |-> tl, ok |-> FALSE]
    ELSE LET user_id == tl[token].user_id IN
         [rt |-> IF user_id \in DOMAIN rt THEN DictDel(rt, user_id) ELSE rt,
          tl |-> DictDel(tl, token), ok |-> TRUE]

\* set_token: expires_at = now + expires_delta, then under the lock
SetTokenResult(rt, tl, user_id, token, expires_delta, t) ==
    LET expires_at == t + expires_delta
        inv == InvalidateUserTokens(rt, tl, user_id)
    IN  IF inv.exc # ""
        THEN [rt |-> rt, tl |-> tl, exc |-> inv.exc]
        ELSE [rt |-> DictSet(inv.rt, user_id,
                             [refresh_token |-> token, expires_at |-> expires_at]),
              tl |-> DictSet(inv.tl, token,
                             [user_id |-> user_id, expires_at |-> expires_at]),
              exc |-> ""]

\* a lookup that, finding the entry expired, drops every record that holds
\* the token instead of the record of the principal the entry names
GetUserIdEvictingHolders(rt, tl, token, t) ==
    IF token \notin DOMAIN tl
    THEN [rt |-> rt, tl |-> tl, uid |-> NoneId, evicted |-> FALSE]
    ELSE IF tl[token].expires_at < t
         THEN [rt |-> [u \in {x \in DOMAIN rt : rt[x].refresh_token # token}
                        |-> rt[u]],
               tl |-> DictDel(tl, token), uid |-> NoneId, evicted |-> TRUE]
         ELSE [rt |-> rt, tl |-> tl, uid |-> tl[token].user_id, evicted |-> FALSE]

\* get_user_id_by_token (evicted: _invalidate_token ran and returned True)
GetUserIdByToken(rt, tl, token, t) ==
    IF token \notin DOMAIN tl
    THEN [rt |-> rt, tl |-> tl, uid |-> NoneId, evicted |-> FALSE]
    ELSE IF tl[token].expires_at < t
         THEN LET inv == InvalidateToken(rt, tl, token) IN
              [rt |-> inv.rt, tl |-> inv.tl, uid |-> NoneId, evicted |-> inv.ok]
         ELSE [rt |-> rt, tl |-> tl, uid |-> tl[token].user_id, evicted |-> FALSE]

\* delete_token
DeleteTokenResult(rt, tl, user_id) == InvalidateUserTokens(rt, tl, user_id)

\* cleanup_expired_tokens, first loop: _invalidate_token on each expired token
RECURSIVE SweepTokens(_, _, _, _)
SweepTokens(rt, tl, expired_tokens, removed) ==
    IF expired_tokens = {}
    THEN [rt |-> rt, tl |-> tl, removed |-> removed]
    ELSE LET token == CHOOSE x \in expired_tokens : TRUE
             inv == InvalidateToken(rt, tl, token)
         IN  SweepTokens(inv.rt, inv.tl, expired_tokens \ {token}, removed + 1)

\* a sweep that counts an expired token once in each map
CleanupCountingBothMaps(rt, tl, t) ==
    LET expired_tokens == {token \in DOMAIN tl : tl[token].expires_at < t}
        s == SweepTokens(rt, tl, expired_tokens, 0)
        expired_users == {u \in DOMAIN rt : rt[u].expires_at < t}
    IN  [rt |-> [u \in (DOMAIN s.rt) \ expired_users |-> s.rt[u]],
         tl |-> s.tl,
         count |-> s.removed + Cardinality(expired_users)]

\* a sweep that takes an entry with expires_at equal to now for expired
CleanupExpiredAtNow(rt, tl, t) ==
    LET expired_tokens == {token \in DOMAIN tl : tl[token].expires_at <= t}
        s == SweepTokens(rt, tl, expired_tokens, 0)
        expired_users == {u \in DOMAIN s.rt : s.rt[u].expires_at <= t}
    IN  [rt |-> [u \in (DOMAIN s.rt) \ expired_users |-> s.rt[u]],
         tl |-> s.tl,
         count |-> s.removed + Cardinality(expired_users)]

\* cleanup_expired_tokens
CleanupExpiredTokens(rt, tl, t) ==
    LET expired_tokens == {token \in DOMAIN tl : tl[token].expires_at < t}
        s == SweepTokens(rt, tl, expired_tokens, 0)
        expired_users == {u \in DOMAIN s.rt : s.rt[u].expires_at < t}
    IN  [rt |-> [u \in (DOMAIN s.rt) \ expired_users |-> s.rt[u]],
         tl |-> s.tl,
         count |-> s.removed + Cardinality(expired_users)]

\* ------------------------------------------------------------------ actions
Init ==
    /\ refresh_tokens = EmptyDict
    /\ token_lookup = EmptyDict
    /\ now = 0
    /\ password = [u \in Users |-> GetPasswordHash(Md5Hex("1"))]
    /\ last = Call("init")
    /\ lock = NoThread
    /\ frame = [th \in Threads |-> IdleFrame]

\* the clock advances between calls
Tick ==
    /\ now < MaxTime
    /\ now' = now + 1
    /\ last' = Call("tick")
    /\ UNCHANGED <<refresh_tokens, token_lookup, password, lock, frame>>

SetToken ==
    \E user_id \in Users, token \in CacheTokens, ttl \in TTLs :
        LET r == SetTokenResult(refresh_tokens, token_lookup, user_id, token, ttl, now) IN
        /\ refresh_tokens' = r.rt
        /\ token_lookup' = r.tl
        /\ last' = [Call("set_token") EXCEPT !.user = user_id, !.token = token,
                                             !.ttl = ttl, !.exc = r.exc]
        /\ UNCHANGED <<now, password, lock, frame>>

GetUserId ==
    \E token \in CacheTokens :
        LET r == GetUserIdByToken(refresh_tokens, token_lookup, token, now) IN
        /\ refresh_tokens' = r.rt
        /\ token_lookup' = r.tl
        /\ last' = [Call("get_user_id_by_token") EXCEPT !.token = token,
                                                        !.uid = r.uid, !.ok = r.evicted]
        /\ UNCHANGED <<now, password, lock, frame>>

DeleteToken ==
    \E user_id \in Users :
        LET r == DeleteTokenResult(refresh_tokens, token_lookup, user_id) IN
        /\ refresh_tokens' = r.rt
        /\ token_lookup' = r.tl
        /\ last' = [Call("delete_token") EXCEPT !.user = user_id, !.ok = r.ok,
                                                !.exc = r.exc]
        /\ UNCHANGED <<now, password, lock, frame>>

CleanupExpired ==
    LET r == CleanupExpiredTokens(refresh_tokens, token_lookup, now) IN
    /\ refresh_tokens' = r.rt
    /\ token_lookup' = r.tl
    /\ last' = [Call("cleanup_expired_tokens") EXCEPT !.count = r.count]
    /\ UNCHANGED <<now, password, lock, frame>>

\* ------------------------------------------------------------ verify_token
\* a verify_token that trusts the signature alone, without the cache lookup
VerifyTokenSignatureOnly(rt, tl, token, t) ==
    [rt |-> rt, tl |-> tl, payload |-> Decode(token, t)]

\* a verify_token that rejects a refresh token only when the store names
\* another principal for it (`user_id and user_id != ...`)
VerifyTokenSkippingAbsent(rt, tl, token, t) ==
    IF ~Decode(token, t)
    THEN [rt |-> rt, tl |-> tl, payload |-> FALSE]
    ELSE IF token.typ = "refresh"
         THEN LET g == GetUserIdByToken(rt, tl, token, t) IN
              [rt |-> g.rt, tl |-> g.tl,
               payload |-> ~(g.uid # NoneId /\ g.uid # 0 /\ g.uid # token.sub)]
         ELSE [rt |-> rt, tl |-> tl, payload |-> TRUE]

\* a verify_token that tests the looked-up id with `user_id is None`
VerifyTokenAcceptingZero(rt, tl, token, t) ==
    IF ~Decode(token, t)
    THEN [rt |-> rt, tl |-> tl, payload |-> FALSE]
    ELSE IF token.typ = "refresh"
         THEN LET g == GetUserIdByToken(rt, tl, token, t) IN
              [rt |-> g.rt, tl |-> g.tl,
               payload |-> ~(g.uid = NoneId \/ g.uid # token.sub)]
         ELSE [rt |-> rt, tl |-> tl, payload |-> TRUE]

\* payload: whether a payload (not None) is returned.  `not user_id` is true
\* of None and of 0.  The lookup may evict the expired entry of the token.
VerifyToken(rt, tl, token, t) ==
    IF ~Decode(token, t)
    THEN [rt |-> rt, tl |-> tl, payload |-> FALSE]
    ELSE IF token.typ = "refresh"
         THEN LET g == GetUserIdByToken(rt, tl, token, t) IN
              [rt |-> g.rt, tl |-> g.tl,
               payload |-> ~(g.uid = NoneId \/ g.uid = 0 \/ g.uid # token.sub)]
         ELSE [rt |-> rt, tl |-> tl, payload |-> TRUE]

\* ------------------------------------------------------------ the handlers
\* what a handler answers: the envelope's code and message (an exception
\* that leaves the handler is answered 500 by the global exception handler)
Answer(code, msg) == [code |-> code, msg |-> msg]
Unhandled == Answer(500, "An unexpected error occurred")
CredentialsException == Answer(401, "Could not validate credentials")

\* a refresh_token that tells a token missing from the store apart from one
\* that does not verify
RefreshDisclosingMembership(rt, tl, token, t) ==
    LET v == VerifyToken(rt, tl, token, t) IN
    [rt |-> v.rt, tl |-> v.tl, verified |-> v.payload, access |-> NoToken,
     ans |-> IF Decode(token, t) /\ ~v.payload
             THEN Answer(401, "Refresh token has been revoked")
             ELSE Answer(400, "Invalid refresh token")]

\* refresh_token.  Nothing in it writes the cache: rotation is commented out.
RefreshTokenResult(rt, tl, token, t) ==
    LET v == VerifyToken(rt, tl, token, t)
        user_id == token.sub
        out(ans, access) == [rt |-> v.rt, tl |-> v.tl, verified |-> v.payload,
                             ans |-> ans, access |-> access]
    IN  IF ~v.payload \/ token.typ # "refresh"
        THEN out(Answer(400, "Invalid refresh token"), NoToken)
        ELSE IF user_id = 0
        THEN out(Answer(400, "Invalid token format"), NoToken)
        ELSE IF QueryRaises(RefreshQueryColumns)
        THEN \* AttributeError, caught by `except Exception`
             out(Answer(400, "Invalid refresh token"), NoToken)
        ELSE IF user_id \notin DOMAIN UserRole
        THEN out(Answer(404, "User not found"), NoToken)
        ELSE out(Answer(200, ""),
                 Jwt("access", user_id, t + AccessTTL, TRUE,
                     ScopesFor(UserRole[user_id])))

\* login.  username: the id of the row it names, or NoneId when it names none.
LoginResult(rt, tl, pws, username, pwd, t) ==
    LET out(r, l, ans, access, refresh) ==
            [rt |-> r, tl |-> l, ans |-> ans, access |-> access, refresh |-> refresh]
        fail(ans) == out(rt, tl, ans, NoToken, NoToken)
    IN  IF QueryRaises(LoginQueryColumns)
        THEN fail(Unhandled)
        ELSE IF username \notin DOMAIN UserRole
        THEN fail(Answer(400, "Incorrect username or password"))
        ELSE IF ~VerifyPassword(Md5Hex(pwd), pws[username])
        THEN fail(Answer(400, "Incorrect username or password"))
        ELSE LET access == Jwt("access", username, t + AccessTTL, TRUE,
                               ScopesFor(UserRole[username]))
                 refresh == Jwt("refresh", username, t + RefreshTTL, TRUE, {})
                 s == SetTokenResult(rt, tl, username, refresh, RefreshTTL, t)
             IN  IF s.exc # ""
                 THEN fail(Unhandled)
                 ELSE out(s.rt, s.tl, Answer(200, ""), access, refresh)

\* get_current_user with Security(..., scopes=required)
GetCurrentUser(token, required, t) ==
    LET user_id == token.sub
        out(ans, user) == [ans |-> ans, user |-> user]
    IN  IF ~Decode(token, t)
        THEN out(CredentialsException, NoneId)
        ELSE IF user_id = 0
        THEN out(CredentialsException, NoneId)
        ELSE IF token.typ # "access"
        THEN out(Answer(403, "Invalid token type"), NoneId)
        ELSE IF QueryRaises(CurrentUserQueryColumns)
        THEN out(Unhandled, NoneId)
        ELSE IF user_id \notin DOMAIN UserRole
        THEN out(CredentialsException, NoneId)
        ELSE IF \E scope \in required : scope \notin token.scopes
        THEN out(Answer(403, "Not enough permissions"), NoneId)
        ELSE out(Answer(200, ""), user_id)

\* logout
LogoutResult(rt, tl, token, t) ==
    LET cu == GetCurrentUser(token, {"user"}, t) IN
    IF cu.ans.code # 200
    THEN [rt |-> rt, tl |-> tl, ans |-> cu.ans, user |-> NoneId]
    ELSE LET d == DeleteTokenResult(rt, tl, cu.user) IN
         [rt |-> d.rt, tl |-> d.tl, user |-> cu.user,
          ans |-> IF d.exc # "" THEN Unhandled
                  ELSE Answer(200, "Successfully logged out")]

\* change_password: the new hash is committed before delete_token is called
ChangePasswordResult(rt, tl, pws, token, current_password, new_password, t) ==
    LET cu == GetCurrentUser(token, {"user"}, t) IN
    IF cu.ans.code # 200
    THEN [rt |-> rt, tl |-> tl, pws |-> pws, ans |-> cu.ans, user |-> NoneId]
    ELSE IF ~VerifyPassword(Md5Hex(current_password), pws[cu.user])
    THEN [rt |-> rt, tl |-> tl, pws |-> pws, user |-> cu.user,
          ans |-> Answer(400, "Current password is incorrect")]
    ELSE LET d == DeleteTokenResult(rt, tl, cu.user) IN
         [rt |-> d.rt, tl |-> d.tl, user |-> cu.user,
          pws |-> [pws EXCEPT ![cu.user] = GetPasswordHash(Md5Hex(new_password))],
          ans |-> IF d.exc # "" THEN Unhandled
                  ELSE Answer(200, "Password updated successfully")]

Login ==
    \E username \in Users \cup {NoneId}, pwd \in Passwords :
        LET r == LoginResult(refresh_tokens, token_lookup, password, username, pwd, now) IN
        /\ refresh_tokens' = r.rt
        /\ token_lookup' = r.tl
        /\ last' = [Call("login") EXCEPT !.user = username, !.pwd = pwd,
                        !.code = r.ans.code, !.msg = r.ans.msg,
                        !.access = r.access, !.refresh = r.refresh]
        /\ UNCHANGED <<now, password, lock, frame>>

RefreshToken ==
    \E token \in RefreshInputs :
        LET r == RefreshTokenResult(refresh_tokens, token_lookup, token, now) IN
        /\ refresh_tokens' = r.rt
        /\ token_lookup' = r.tl
        /\ last' = [Call("refresh_token") EXCEPT !.token = token,
                        !.verified = r.verified, !.code = r.ans.code,
                        !.msg = r.ans.msg, !.access = r.access]
        /\ UNCHANGED <<now, password, lock, frame>>

Logout ==
    \E token \in BearerInputs :
        LET r == LogoutResult(refresh_tokens, token_lookup, token, now) IN
        /\ refresh_tokens' = r.rt
        /\ token_lookup' = r.tl
        /\ last' = [Call("logout") EXCEPT !.token = token, !.user = r.user,
                        !.code = r.ans.code, !.msg = r.ans.msg]
        /\ UNCHANGED <<now, password, lock, frame>>

ChangePassword ==
    \E token \in BearerInputs, current_password \in Passwords :
        LET r == ChangePasswordResult(refresh_tokens, token_lookup, password,
                                      token, current_password, "2", now) IN
        /\ refresh_tokens' = r.rt
        /\ token_lookup' = r.tl
        /\ password' = r.pws
        /\ last' = [Call("change_password") EXCEPT !.token = token,
                        !.user = r.user, !.pwd = current_password,
                        !.code = r.ans.code, !.msg = r.ans.msg]
        /\ UNCHANGED <<now, lock, frame>>

\* a request to an endpoint guarded by Security(get_current_user, scopes=...)
Authorize ==
    \E token \in BearerInputs, required \in RequiredScopes :
        LET r == GetCurrentUser(token, required, now) IN
        /\ last' = [Call("get_current_user") EXCEPT !.token = token,
                        !.scopes = required, !.user = r.user,
                        !.code = r.ans.code, !.msg = r.ans.msg]
        /\ UNCHANGED <<refresh_tokens, token_lookup, now, password, lock, frame>>

Next ==
    \/ Tick
    \/ SetToken
    \/ GetUserId
    \/ DeleteToken
    \/ CleanupExpired

Spec == Init /\ [][Next]_vars

\* the cache together with the handlers of routers/auth.py
AuthNext ==
    \/ Next
    \/ Login
    \/ RefreshToken
    \/ Logout
    \/ ChangePassword
    \/ Authorize

AuthSpec == Init /\ [][AuthNext]_vars

\* ---------------------------------------------------- the cache under threads
\* The methods of TokenCache statement by statement, called by threads.  A
\* thread computes expires_at (set_token) or now (cleanup_expired_tokens)
\* before it asks for the lock; `with self._lock` is taken by the step that
\* runs the first statement of the block and released by the step that runs
\* the last one, or by an exception that leaves the block.
ThreadTokens == {t \in CacheTokens : t.exp > 1}
ThreadTTLs == {1}

\* the frame of a thread that has entered a method
Frame(pc, user_id, token, at) ==
    [pc |-> pc, user |-> user_id, token |-> token, at |-> at]

Goto(th, pc) == frame' = [frame EXCEPT ![th].pc = pc]
Return(th) == frame' = [frame EXCEPT ![th] = IdleFrame]

\* set_token is called: expires_at = now + expires_delta (line 35)
CallSetToken ==
    \E th \in Threads, user_id \in Users, token \in ThreadTokens, ttl \in ThreadTTLs :
        /\ frame[th].pc = "idle"
        /\ frame' = [frame EXCEPT ![th] = Frame("set_token:lock", user_id, token, now + ttl)]
        /\ UNCHANGED <<refresh_tokens, token_lookup, now, password, last, lock>>

\* a set_token that does not release the lock when _invalidate_user_tokens
\* raises (an acquire() without the with block)
SetTokenInvalidateKeepingLock ==
    \E th \in Threads :
        LET user_id == frame[th].user
            absent == user_id \notin DOMAIN refresh_tokens
            token == refresh_tokens[user_id].refresh_token
            keyerror == ~absent /\ token \notin DOMAIN token_lookup
        IN  /\ frame[th].pc = "set_token:lock"
            /\ lock = NoThread
            /\ lock' = th
            /\ token_lookup' = IF absent \/ keyerror THEN token_lookup
                               ELSE DictDel(token_lookup, token)
            /\ frame' = [frame EXCEPT ![th] =
                            IF keyerror THEN IdleFrame
                            ELSE [@ EXCEPT !.pc = IF absent THEN "set_token:store"
                                                 ELSE "set_token:del_record"]]
            /\ UNCHANGED <<refresh_tokens, now, password, last>>

\* with self._lock: _invalidate_user_tokens up to `del self._token_lookup[token]`
SetTokenInvalidate ==
    \E th \in Threads :
        LET user_id == frame[th].user
            absent == user_id \notin DOMAIN refresh_tokens
            token == refresh_tokens[user_id].refresh_token
            keyerror == ~absent /\ token \notin DOMAIN token_lookup
        IN  /\ frame[th].pc = "set_token:lock"
            /\ lock = NoThread
            /\ lock' = IF keyerror THEN NoThread ELSE th
            /\ token_lookup' = IF absent \/ keyerror THEN token_lookup
                               ELSE DictDel(token_lookup, token)
            /\ frame' = [frame EXCEPT ![th] =
                            IF keyerror THEN IdleFrame
                            ELSE [@ EXCEPT !.pc = IF absent THEN "set_token:store"
                                                 ELSE "set_token:del_record"]]
            /\ UNCHANGED <<refresh_tokens, now, password, last>>

\* _invalidate_user_tokens: `del self._refresh_tokens[user_id]`
SetTokenDelRecord ==
    \E th \in Threads :
        /\ frame[th].pc = "set_token:del_record"
        /\ lock = th
        /\ refresh_tokens' = DictDel(refresh_tokens, frame[th].user)
        /\ Goto(th, "set_token:store")
        /\ UNCHANGED <<token_lookup, now, password, last, lock>>

\* self._refresh_tokens[user_id] = {...}
SetTokenStoreRecord ==
    \E th \in Threads :
        /\ frame[th].pc = "set_token:store"
        /\ lock = th
        /\ refresh_tokens' = DictSet(refresh_tokens, frame[th].user,
                                     [refresh_token |-> frame[th].token,
                                      expires_at |-> frame[th].at])
        /\ Goto(th, "set_token:index")
        /\ UNCHANGED <<token_lookup, now, password, last, lock>>

\* self._token_lookup[token] = {...}, the end of the with block
SetTokenStoreIndex ==
    \E th \in Threads :
        /\ frame[th].pc = "set_token:index"
        /\ lock = th
        /\ token_lookup' = DictSet(token_lookup, frame[th].token,
                                   [user_id |-> frame[th].user,
                                    expires_at |-> frame[th].at])
        /\ lock' = NoThread
        /\ Return(th)
        /\ UNCHANGED <<refresh_tokens, now, password, last>>

CallDeleteToken ==
    \E th \in Threads, user_id \in Users :
        /\ frame[th].pc = "idle"
        /\ frame' = [frame EXCEPT ![th] = Frame("delete_token:lock", user_id, NoToken, 0)]
        /\ UNCHANGED <<refresh_tokens, token_lookup, now, password, last, lock>>

\* with self._lock: _invalidate_user_tokens up to `del self._token_lookup[token]`
DeleteTokenInvalidate ==
    \E th \in Threads :
        LET user_id == frame[th].user
            absent == user_id \notin DOMAIN refresh_tokens
            token == refresh_tokens[user_id].refresh_token
            keyerror == ~absent /\ token \notin DOMAIN token_lookup
            leaves == absent \/ keyerror
        IN  /\ frame[th].pc = "delete_token:lock"
            /\ lock = NoThread
            /\ lock' = IF leaves THEN NoThread ELSE th
            /\ token_lookup' = IF leaves THEN token_lookup
                               ELSE DictDel(token_lookup, token)
            /\ frame' = [frame EXCEPT ![th] =
                            IF leaves THEN IdleFrame
                            ELSE [@ EXCEPT !.pc = "delete_token:del_record"]]
            /\ UNCHANGED <<refresh_tokens, now, password, last>>

\* `del self._refresh_tokens[user_id]`, return True
DeleteTokenDelRecord ==
    \E th \in Threads :
        /\ frame[th].pc = "delete_token:del_record"
        /\ lock = th
        /\ refresh_tokens' = DictDel(refresh_tokens, frame[th].user)
        /\ lock' = NoThread
        /\ Return(th)
        /\ UNCHANGED <<token_lookup, now, password, last>>

CallGetUserId ==
    \E th \in Threads, token \in ThreadTokens :
        /\ frame[th].pc = "idle"
        /\ frame' = [frame EXCEPT ![th] = Frame("get_user_id_by_token:lock", NoneId, token, 0)]
        /\ UNCHANGED <<refresh_tokens, token_lookup, now, password, last, lock>>

\* with self._lock: the lookup, the expiry test against the clock and, for an
\* expired entry, _invalidate_token up to `del self._refresh_tokens[user_id]`
GetUserIdLookup ==
    \E th \in Threads :
        LET token == frame[th].token
            found == token \in DOMAIN token_lookup
            expired == found /\ token_lookup[token].expires_at < now
            user_id == token_lookup[token].user_id
        IN  /\ frame[th].pc = "get_user_id_by_token:lock"
            /\ lock = NoThread
            /\ lock' = IF expired THEN th ELSE NoThread
            /\ refresh_tokens' =
                    IF expired /\ user_id \in DOMAIN refresh_tokens
                    THEN DictDel(refresh_tokens, user_id) ELSE refresh_tokens
            /\ frame' = [frame EXCEPT ![th] =
                            IF expired
                            THEN [@ EXCEPT !.pc = "get_user_id_by_token:del_index"]
                            ELSE IdleFrame]
            /\ UNCHANGED <<token_lookup, now, password, last>>

\* _invalidate_token: `del self._token_lookup[token]`, return None
GetUserIdDelIndex ==
    \E th \in Threads :
        /\ frame[th].pc = "get_user_id_by_token:del_index"
        /\ lock = th
        /\ token_lookup' = DictDel(token_lookup, frame[th].token)
        /\ lock' = NoThread
        /\ Return(th)
        /\ UNCHANGED <<refresh_tokens, now, password, last>>

\* cleanup_expired_tokens is called: now = datetime.now() (line 151)
CallCleanup ==
    \E th \in Threads :
        /\ frame[th].pc = "idle"
        /\ frame' = [frame EXCEPT ![th] = Frame("cleanup:lock", NoneId, NoToken, now)]
        /\ UNCHANGED <<refresh_tokens, token_lookup, now, password, last, lock>>

\* with self._lock: the loop over the expired index entries
CleanupTokens ==
    \E th \in Threads :
        LET expired_tokens == {token \in DOMAIN token_lookup :
                                    token_lookup[token].expires_at < frame[th].at}
            s == SweepTokens(refresh_tokens, token_lookup, expired_tokens, 0)
        IN  /\ frame[th].pc = "cleanup:lock"
            /\ lock = NoThread
            /\ lock' = th
            /\ refresh_tokens' = s.rt
            /\ token_lookup' = s.tl
            /\ Goto(th, "cleanup:users")
            /\ UNCHANGED <<now, password, last>>

\* the loop over the remaining expired records, the end of the with block
CleanupUsers ==
    \E th \in Threads :
        LET expired_users == {u \in DOMAIN refresh_tokens :
                                    refresh_tokens[u].expires_at < frame[th].at}
        IN  /\ frame[th].pc = "cleanup:users"
            /\ lock = th
            /\ refresh_tokens' = [u \in (DOMAIN refresh_tokens) \ expired_users
                                    |-> refresh_tokens[u]]
            /\ lock' = NoThread
            /\ Return(th)
            /\ UNCHANGED <<token_lookup, now, password, last>>

ThreadNext ==
    \/ Tick
    \/ CallSetToken
    \/ SetTokenInvalidate
    \/ SetTokenDelRecord
    \/ SetTokenStoreRecord
    \/ SetTokenStoreIndex
    \/ CallDeleteToken
    \/ DeleteTokenInvalidate
    \/ DeleteTokenDelRecord
    \/ CallGetUserId
    \/ GetUserIdLookup
    \/ GetUserIdDelIndex
    \/ CallCleanup
    \/ CleanupTokens
    \/ CleanupUsers

ThreadSpec == Init /\ [][ThreadNext]_vars

\* a step of thread th inside a cache method
ThreadRuns(th) ==
    /\ frame[th].pc # "idle"
    /\ \/ SetTokenInvalidate \/ SetTokenDelRecord \/ SetTokenStoreRecord
       \/ SetTokenStoreIndex \/ DeleteTokenInvalidate \/ DeleteTokenDelRecord
       \/ GetUserIdLookup \/ GetUserIdDelIndex \/ CleanupTokens \/ CleanupUsers
    /\ frame'[th] # frame[th]

\* the threads under a scheduler that keeps running every thread that is
\* inside a method, and a lock that serves every thread blocked in acquire
ThreadLiveSpec == ThreadSpec /\ \A th \in Threads : SF_vars(ThreadRuns(th))

\* the cache over unbounded time: the clock keeps advancing; nothing in the
\* application calls a cache method on its own (no timer, task or startup
\* hook runs cleanup_expired_tokens), so no call is fair
LiveSpec == Init /\ [][Next]_vars /\ WF_vars(Tick)

\* =================================================================== claims
\* an entry is expired when its expires_at is earlier than the clock
ExpiredUsers(rt, t) == {u \in DOMAIN rt : rt[u].expires_at < t}
LiveEntries(tl, t) == {x \in DOMAIN tl : ~(tl[x].expires_at < t)}

\* the token is the live index entry of the principal its subject names
CurrentEntry(token) ==
    /\ token \in DOMAIN token_lookup
    /\ token_lookup[token].user_id = token.sub
    /\ ~(token_lookup[token].expires_at < now)

\* what get_user_id_by_token would return in the state a step leads to
LookupAfter(token) ==
    GetUserIdByToken(refresh_tokens', token_lookup', token, now').uid

\* C1 -- Mirror invariant: every index entry token -> {user_id, expires_at}
\* has the record of user_id holding that token with the same expires_at,
\* and every record has exactly such an index entry.
MirrorInvariant ==
    /\ \A t \in DOMAIN token_lookup :
        LET u == token_lookup[t].user_id IN
        /\ u \in DOMAIN refresh_tokens
        /\ refresh_tokens[u].refresh_token = t
        /\ refresh_tokens[u].expires_at = token_lookup[t].expires_at
    /\ \A u \in DOMAIN refresh_tokens :
        LET t == refresh_tokens[u].refresh_token IN
        /\ t \in DOMAIN token_lookup
        /\ token_lookup[t].user_id = u
        /\ token_lookup[t].expires_at = refresh_tokens[u].expires_at

\* C2 -- Supersession: after set_token(P, t1, ttl) followed by
\* set_token(P, t2, ttl) with t1 # t2 and positive ttl, a lookup of t1 returns
\* None and a lookup of t2 returns P.
Supersession ==
    [][(/\ last.op = "set_token" /\ last'.op = "set_token"
        /\ last'.user = last.user /\ last'.token # last.token
        /\ last.ttl > 0 /\ last'.ttl > 0)
       => (/\ LookupAfter(last.token) = NoneId
           /\ LookupAfter(last'.token) = last'.user)]_vars

\* C3 -- Refresh cross-check: a refresh token whose signature, issuer,
\* audience and exp verify, but which is not the live store entry of the
\* principal in its subject, makes verify_token return None and Refresh
\* answer the invalid-token error; Refresh mints an access token only for
\* the live store entry of the token's subject.
RefreshCrossCheck ==
    [][(last'.op = "refresh_token")
       => (/\ (/\ Decode(last'.token, now) /\ last'.token.typ = "refresh"
               /\ ~CurrentEntry(last'.token))
              => (/\ ~last'.verified
                  /\ last'.code = 400 /\ last'.msg = "Invalid refresh token"
                  /\ last'.access = NoToken)
           /\ (last'.verified /\ last'.token.typ = "refresh")
              => CurrentEntry(last'.token)
           /\ last'.access # NoToken => CurrentEntry(last'.token))]_vars

\* C3 witness: Refresh has rejected a decodable refresh token of principal 1
\* that a later set_token for principal 1 superseded (the record of 1 is
\* live and holds another token).
RefreshRejectsSuperseded ==
    /\ last.op = "refresh_token" /\ last.code = 400 /\ ~last.verified
    /\ last.token.typ = "refresh" /\ last.token.sub = 1
    /\ Decode(last.token, now)
    /\ 1 \in DOMAIN refresh_tokens
    /\ refresh_tokens[1].refresh_token # last.token
    /\ ~(refresh_tokens[1].expires_at < now)

\* C4 -- Single session: at most one token of the index resolves to any
\* principal, and set_token for a principal always leaves that principal
\* with the new token alone: the previous record is replaced and the token
\* it held is no longer in the index.
SingleSession ==
    [][/\ \A t1, t2 \in DOMAIN token_lookup' :
            token_lookup'[t1].user_id = token_lookup'[t2].user_id => t1 = t2
       /\ (last'.op = "set_token")
          => (/\ last'.user \in DOMAIN refresh_tokens'
              /\ refresh_tokens'[last'.user].refresh_token = last'.token
              /\ (/\ last'.user \in DOMAIN refresh_tokens
                  /\ refresh_tokens[last'.user].refresh_token # last'.token)
                 => refresh_tokens[last'.user].refresh_token
                        \notin DOMAIN token_lookup')]_vars

\* C5 -- Token uniqueness: no two records of different principals hold the
\* same token string.
TokenUniqueness ==
    \A u, v \in DOMAIN refresh_tokens :
        refresh_tokens[u].refresh_token = refresh_tokens[v].refresh_token => u = v

\* C6 -- Lazy expiry: after set_token(P, t, ttl) with expires_at earlier than
\* the clock, get_user_id_by_token(t) returns None, and after that call the
\* index does not contain t and there is no record for P.
LazyExpiry ==
    [][(/\ last.op = "set_token" /\ last.ttl < 0
        /\ last'.op = "get_user_id_by_token" /\ last'.token = last.token)
       => (/\ last'.uid = NoneId
           /\ last.token \notin DOMAIN token_lookup'
           /\ last.user \notin DOMAIN refresh_tokens')]_vars

\* C7 -- Sweep completeness: cleanup_expired_tokens returns the number N of
\* records with expires_at < now, removes exactly those records and every
\* expired index entry, and leaves the live records and the live index
\* entries as they were.
SweepCompleteness ==
    [][(last'.op = "cleanup_expired_tokens")
       => (/\ last'.count = Cardinality(ExpiredUsers(refresh_tokens, now))
           /\ refresh_tokens' =
                [u \in (DOMAIN refresh_tokens) \ ExpiredUsers(refresh_tokens, now)
                    |-> refresh_tokens[u]]
           /\ token_lookup' =
                [t \in LiveEntries(token_lookup, now) |-> token_lookup[t]])]_vars

\* C7 witness: a sweep has removed one expired record (N = 1) and left a
\* live record with its index entry (M = 1).
SweepRemovedOneOfTwo ==
    /\ last.op = "cleanup_expired_tokens" /\ last.count = 1
    /\ \E u \in DOMAIN refresh_tokens :
        /\ ~(refresh_tokens[u].expires_at < now)
        /\ refresh_tokens[u].refresh_token \in DOMAIN token_lookup
        /\ token_lookup[refresh_tokens[u].refresh_token].user_id = u

\* C8 -- Idempotent invalidation: delete_token(P) never raises, returns True
\* exactly when a record for P existed before the call, and a second
\* consecutive delete_token(P) returns False and leaves the store unchanged.
IdempotentInvalidation ==
    [][(last'.op = "delete_token")
       => (/\ last'.exc = ""
           /\ last'.ok <=> (last'.user \in DOMAIN refresh_tokens)
           /\ (last.op = "delete_token" /\ last.user = last'.user)
              => (/\ ~last'.ok
                  /\ UNCHANGED <<refresh_tokens, token_lookup>>))]_vars

\* C9 -- Non-rotation: a Refresh presented with the live store entry of an
\* existing, active principal succeeds with a new access token and leaves
\* the session store unchanged, so the same refresh token keeps working.
NonRotation ==
    [][(/\ last'.op = "refresh_token"
        /\ Decode(last'.token, now) /\ last'.token.typ = "refresh"
        /\ last'.token.sub = 1 /\ CurrentEntry(last'.token))
       => (/\ last'.code = 200 /\ last'.access # NoToken
           /\ UNCHANGED <<refresh_tokens, token_lookup>>)]_vars

\* C11 -- Scope inheritance: an access token that carries the scopes of its
\* principal's role (admin: admin, manager, user; manager: manager, user;
\* otherwise user) passes get_current_user for every required scope among
\* its scopes and is answered 403 when a required scope is absent from them.
ScopeInheritance ==
    [][(/\ last'.op = "get_current_user"
        /\ last'.token.typ = "access" /\ Decode(last'.token, now)
        /\ last'.token.sub # 0
        /\ last'.token.scopes = ScopesFor(UserRole[last'.token.sub]))
       => (/\ (last'.scopes \subseteq last'.token.scopes)
                => (last'.code = 200 /\ last'.user = last'.token.sub)
           /\ ~(last'.scopes \subseteq last'.token.scopes)
                => last'.code = 403)]_vars

\* C12 -- Access tokens are independent of the session store:
\* get_current_user leaves the cache as it is, and an unexpired access token
\* of an existing, active principal, required scopes among its own, is
\* accepted whatever the cache holds.
AccessTokenIndependence ==
    [][(last'.op = "get_current_user")
       => (/\ UNCHANGED <<refresh_tokens, token_lookup>>
           /\ (/\ last'.token.typ = "access" /\ Decode(last'.token, now)
               /\ last'.token.sub # 0
               /\ last'.scopes \subseteq last'.token.scopes)
              => last'.code = 200)]_vars

\* C13 -- get_current_user answers the 401 credentials error both when the
\* token does not decode and when the decoded token's type is not access.
TokenTypeUnauthenticated ==
    [][(/\ last'.op = "get_current_user"
        /\ (~Decode(last'.token, now)) \/ (last'.token.typ # "access"))
       => (/\ last'.code = CredentialsException.code
           /\ last'.msg = CredentialsException.msg)]_vars

\* C14 -- Totality of the store operations: set_token, get_user_id_by_token,
\* delete_token and cleanup_expired_tokens never raise; a missing principal
\* is reported as False and a missing token as None.
Totality ==
    [][/\ last'.exc = ""
       /\ (last'.op = "delete_token" /\ last'.user \notin DOMAIN refresh_tokens)
            => ~last'.ok
       /\ (last'.op = "get_user_id_by_token"
            /\ last'.token \notin DOMAIN token_lookup)
            => last'.uid = NoneId]_vars

\* the methods a thread is in while it runs set_token or delete_token
WriterPcs ==
    {"set_token:lock", "set_token:del_record", "set_token:store",
     "set_token:index", "delete_token:lock", "delete_token:del_record"}

\* the index entries that name principal q
IndexOf(tl, q) == {t \in DOMAIN tl : tl[t].user_id = q}

\* C15 -- Atomic two-map updates: a thread touches the maps only while it
\* holds the lock, and whenever the lock is free (what the next thread to
\* take it will observe) no principal has two live index entries, every
\* index entry has its record and every record has its index entry.
AtomicTwoMapUpdates ==
    /\ \A th \in Threads :
            frame[th].pc \notin {"idle", "set_token:lock", "delete_token:lock",
                                 "get_user_id_by_token:lock", "cleanup:lock"}
                => lock = th
    /\ (lock = NoThread) =>
        /\ \A q \in Users :
                Cardinality({t \in IndexOf(token_lookup, q) :
                                ~(token_lookup[t].expires_at < now)}) <= 1
        /\ \A t \in DOMAIN token_lookup :
                /\ token_lookup[t].user_id \in DOMAIN refresh_tokens
                /\ refresh_tokens[token_lookup[t].user_id].refresh_token = t
        /\ \A q \in DOMAIN refresh_tokens :
                /\ refresh_tokens[q].refresh_token \in DOMAIN token_lookup
                /\ token_lookup[refresh_tokens[q].refresh_token].user_id = q

\* C16 -- Linearizability of put/resolve: once set_token(P, t, ttl) has
\* returned (the record of P holds t and the lock is free) and until a later
\* set_token or delete_token of P takes effect or expires_at elapses, a
\* get_user_id_by_token(t) by any thread returns P.
PutResolveLinearizable ==
    [][\A th \in Threads :
        (/\ frame[th].pc = "get_user_id_by_token:lock"
         /\ frame'[th].pc # "get_user_id_by_token:lock")
        => \A p \in DOMAIN refresh_tokens :
             (/\ refresh_tokens[p].refresh_token = frame[th].token
              /\ ~(refresh_tokens[p].expires_at < now))
             => GetUserIdByToken(refresh_tokens, token_lookup,
                                 frame[th].token, now).uid = p]_vars

\* C17 -- Non-interference between principals: no step of a set_token or
\* delete_token call for principal P, whatever other calls it is interleaved
\* with, changes the record or an index entry of another principal Q.
NonInterference ==
    [][\A th \in Threads :
        (frame[th].pc \in WriterPcs /\ frame'[th] # frame[th])
        => \A q \in Users \ {frame[th].user} :
            /\ (q \in DOMAIN refresh_tokens) <=> (q \in DOMAIN refresh_tokens')
            /\ (q \in DOMAIN refresh_tokens)
                    => refresh_tokens'[q] = refresh_tokens[q]
            /\ IndexOf(token_lookup', q) = IndexOf(token_lookup, q)
            /\ \A t \in IndexOf(token_lookup, q) :
                    token_lookup'[t] = token_lookup[t]]_vars

\* the credentials name no row, or the password does not verify
LoginFails(username, pwd) ==
    IF username \notin DOMAIN UserRole THEN TRUE
    ELSE ~VerifyPassword(Md5Hex(pwd), password[username])

\* the refresh token does not decode (signature, issuer, audience, exp), or
\* it decodes and is not the live store entry of its subject
RefreshFails(token) ==
    /\ token.typ = "refresh"
    /\ ~(Decode(token, now) /\ CurrentEntry(token))

\* C18 -- Failure is uniform and side-effect free: every failing Login (no
\* matching row, or password rejected) gets one and the same answer and
\* leaves the session store unchanged, and every failing Refresh (token does
\* not verify, or is not in the store) gets one and the same answer.
UniformFailure ==
    [][/\ (last'.op = "login" /\ LoginFails(last'.user, last'.pwd))
          => (/\ last'.code # 200
              /\ UNCHANGED <<refresh_tokens, token_lookup>>
              /\ \A username \in Users \cup {NoneId}, pwd \in Passwords :
                    LoginFails(username, pwd)
                    => LoginResult(refresh_tokens, token_lookup, password,
                                   username, pwd, now).ans
                        = Answer(last'.code, last'.msg))
       /\ (last'.op = "refresh_token" /\ RefreshFails(last'.token))
          => (/\ last'.code # 200
              /\ \A token \in RefreshInputs :
                    RefreshFails(token)
                    => RefreshTokenResult(refresh_tokens, token_lookup,
                                          token, now).ans
                        = Answer(last'.code, last'.msg))]_vars

\* C18 witness: a Login with a rejected password for an existing principal
\* has failed while the store holds a record.
LoginFailedWithSession ==
    /\ last.op = "login" /\ last.user \in Users /\ last.code # 200
    /\ LoginFails(last.user, last.pwd)
    /\ refresh_tokens # EmptyDict

\* C19 -- Expired records are eventually removed without being accessed:
\* whenever the record of a principal has expired, eventually the store holds
\* no expired record of that principal.
ExpiredEventuallyRemoved ==
    \A u \in Users :
        (u \in ExpiredUsers(refresh_tokens, now))
            ~> (u \notin ExpiredUsers(refresh_tokens, now))

\* what a lookup of token2 returns after set_token(user_id, token, ttl)
LookupAfterSet(rt, tl, user_id, token, ttl, token2) ==
    LET r == SetTokenResult(rt, tl, user_id, token, ttl, now) IN
    GetUserIdByToken(r.rt, r.tl, token2, now).uid

\* what a lookup of token returns after delete_token(user_id)
LookupAfterDelete(rt, tl, user_id, token) ==
    LET r == DeleteTokenResult(rt, tl, user_id) IN
    GetUserIdByToken(r.rt, r.tl, token, now).uid

\* C20 -- Sweep is not needed for correctness: at any point of a run, the
\* lookups that follow return the same values whether or not
\* cleanup_expired_tokens is called at that point: directly, after a
\* delete_token and after a set_token.
SweepNotNeeded ==
    [][(last'.op = "cleanup_expired_tokens")
       => (/\ \A token \in CacheTokens :
                GetUserIdByToken(refresh_tokens, token_lookup, token, now).uid
                    = GetUserIdByToken(refresh_tokens', token_lookup', token, now).uid
           /\ \A user_id \in Users, token \in CacheTokens :
                LookupAfterDelete(refresh_tokens, token_lookup, user_id, token)
                    = LookupAfterDelete(refresh_tokens', token_lookup', user_id, token)
           /\ \A user_id \in Users, token \in CacheTokens, ttl \in TTLs,
                 token2 \in CacheTokens :
                LookupAfterSet(refresh_tokens, token_lookup, user_id, token, ttl, token2)
                    = LookupAfterSet(refresh_tokens', token_lookup', user_id, token,
                                     ttl, token2))]_vars

\* the two maps mirror each other
Mirrored(rt, tl) ==
    /\ \A t \in DOMAIN tl :
        /\ tl[t].user_id \in DOMAIN rt
        /\ rt[tl[t].user_id] = [refresh_token |-> t, expires_at |-> tl[t].expires_at]
    /\ \A u \in DOMAIN rt :
        /\ rt[u].refresh_token \in DOMAIN tl
        /\ tl[rt[u].refresh_token] = [user_id |-> u, expires_at |-> rt[u].expires_at]

\* thread o is inside the call that races with the one thread th is in: the
\* same principal, set_token against delete_token
Racing(th, o) ==
    /\ o # th
    /\ frame[o].pc \in WriterPcs
    /\ frame[o].user = frame[th].user
    /\ (frame[o].token = NoToken) # (frame[th].token = NoToken)

\* C21 -- Last writer wins: when set_token(P, t, ttl) and delete_token(P) run
\* concurrently, each call as it comes to its end leaves the store in its own
\* state for P (set_token: record P -> t with its index entry; delete_token:
\* no record and no index entry), so that the call the lock serves last
\* decides, and the two maps mirror each other.
LastWriterWins ==
    [][\A th \in Threads :
        (/\ frame[th].pc \in WriterPcs /\ frame'[th].pc = "idle"
         /\ \E o \in Threads : Racing(th, o))
        => LET p == frame[th].user
               t == frame[th].token
           IN  /\ IF t # NoToken
                  THEN /\ p \in DOMAIN refresh_tokens'
                       /\ refresh_tokens'[p] =
                            [refresh_token |-> t, expires_at |-> frame[th].at]
                       /\ IndexOf(token_lookup', p) = {t}
                  ELSE /\ p \notin DOMAIN refresh_tokens'
                       /\ IndexOf(token_lookup', p) = {}
               /\ Mirrored(refresh_tokens', token_lookup')]_vars

\* C22 -- Refresh derives scopes from the role the principal has at refresh
\* time: a Refresh with the live store entry of an existing, active principal
\* mints an access token that carries the scope set of the principal's role
\* in the users table.
RefreshScopesFromRole ==
    [][(/\ last'.op = "refresh_token"
        /\ Decode(last'.token, now) /\ last'.token.typ = "refresh"
        /\ last'.token.sub # 0 /\ CurrentEntry(last'.token))
       => (/\ last'.access # NoToken
           /\ last'.access.sub = last'.token.sub
           /\ last'.access.scopes = ScopesFor(UserRole[last'.token.sub]))]_vars

\* C23 -- Failed password change has no effect: ChangePassword with a valid
\* access token and a current password that does not verify answers the
\* invalid-credentials error and leaves the stored hash and the session
\* store unchanged.
FailedPasswordChange ==
    [][(/\ last'.op = "change_password"
        /\ last'.token.typ = "access" /\ Decode(last'.token, now)
        /\ last'.token.sub # 0
        /\ ~VerifyPassword(Md5Hex(last'.pwd), password[last'.token.sub]))
       => (/\ last'.code = 400
           /\ last'.msg = "Current password is incorrect"
           /\ UNCHANGED <<password, refresh_tokens, token_lookup>>)]_vars

ReRegistration ==
    [][(/\ last'.op = "set_token"
        /\ last'.user \in DOMAIN refresh_tokens
        /\ refresh_tokens[last'.user].refresh_token = last'.token)
       => (/\ last'.exc = ""
           /\ refresh_tokens'[last'.user] =
                [refresh_token |-> last'.token, expires_at |-> now + last'.ttl]
           /\ IndexOf(token_lookup', last'.user) = {last'.token}
           /\ token_lookup'[last'.token] =
                [user_id |-> last'.user, expires_at |-> now + last'.ttl]
           /\ (last'.ttl > 0) => (LookupAfter(last'.token) = last'.user))]_vars

\* C26 -- Lookup frame: get_user_id_by_token(t) leaves both maps unchanged
\* when t is unknown or its entry is not expired; when the entry is expired
\* it removes the index entry of t and the record of the principal that
\* entry names, and nothing else.
LookupFrame ==
    [][(last'.op = "get_user_id_by_token")
       => IF last'.token \in DOMAIN token_lookup
             /\ token_lookup[last'.token].expires_at < now
          THEN /\ token_lookup' =
                    [t \in (DOMAIN token_lookup) \ {last'.token} |-> token_lookup[t]]
               /\ refresh_tokens' =
                    [u \in (DOMAIN refresh_tokens)
                            \ {token_lookup[last'.token].user_id}
                        |-> refresh_tokens[u]]
          ELSE UNCHANGED <<refresh_tokens, token_lookup>>]_vars

\* C26 witness: a lookup has evicted the expired entry of its token, and the
\* record and index entry of another principal are still there.
LookupEvictedOne ==
    /\ last.op = "get_user_id_by_token" /\ last.ok /\ last.uid = NoneId
    /\ last.token \notin DOMAIN token_lookup
    /\ \E u \in DOMAIN refresh_tokens :
        /\ refresh_tokens[u].refresh_token \in DOMAIN token_lookup
        /\ token_lookup[refresh_tokens[u].refresh_token].user_id = u

\* pcs at which a thread is blocked in `with self._lock`, and pcs inside the block
AcquirePcs ==
    {"set_token:lock", "delete_token:lock", "get_user_id_by_token:lock", "cleanup:lock"}
HeldPcs ==
    {"set_token:del_record", "set_token:store", "set_token:index",
     "delete_token:del_record", "get_user_id_by_token:del_index", "cleanup:users"}

ExpiryBoundary ==
    [][/\ (/\ last'.op = "get_user_id_by_token"
           /\ last'.token \in DOMAIN token_lookup
           /\ token_lookup[last'.token].expires_at = now)
          => (/\ last'.uid = token_lookup[last'.token].user_id
              /\ UNCHANGED <<refresh_tokens, token_lookup>>)
       /\ (last'.op = "cleanup_expired_tokens")
          => \A t \in DOMAIN token_lookup :
                (GetUserIdByToken(refresh_tokens, token_lookup, t, now).uid # NoneId
                    \/ token_lookup[t].expires_at >= now)
                => (/\ t \in DOMAIN token_lookup'
                    /\ token_lookup'[t] = token_lookup[t]
                    /\ token_lookup[t].user_id \in DOMAIN refresh_tokens'
                    /\ refresh_tokens'[token_lookup[t].user_id]
                            = refresh_tokens[token_lookup[t].user_id])]_vars

\* C29 witness: a sweep has removed an expired entry and kept an entry whose
\* expires_at equals now.
BoundaryEntryKept ==
    /\ last.op = "cleanup_expired_tokens" /\ last.count >= 1
    /\ \E t \in DOMAIN token_lookup : token_lookup[t].expires_at = now

\* C30 -- Principal id 0 can never refresh: for a validly signed, unexpired
\* refresh token that is the current store entry of its subject,
\* verify_token returns a payload exactly when the subject is not 0.
PrincipalZeroNeverRefreshes ==
    [][(/\ last'.op = "refresh_token"
        /\ last'.token.typ = "refresh"
        /\ Decode(last'.token, now)
        /\ CurrentEntry(last'.token))
       => (/\ last'.verified <=> (last'.token.sub # 0)
           /\ (last'.token.sub = 0) => (last'.code = 400 /\ last'.access = NoToken)
           /\ UNCHANGED <<refresh_tokens, token_lookup>>)]_vars

\* C30 witness: refresh_token has rejected the token of principal 0 that is
\* the current store entry of principal 0.
PrincipalZeroRejected ==
    /\ last.op = "refresh_token" /\ ~last.verified /\ last.code = 400
    /\ last.token.typ = "refresh" /\ last.token.sub = 0
    /\ Decode(last.token, now)
    /\ CurrentEntry(last.token)
    /\ 0 \in DOMAIN refresh_tokens
    /\ refresh_tokens[0].refresh_token = last.token

====
